---- MODULE Spec2Model ----
(***************************************************************************)
(* GridStore reader (carmen-core, rust-src/src/gridstore/store.rs).        *)
(*                                                                         *)
(* The model follows a store from the builder (insert, load_bin_boundaries,*)
(* finish) to a reader (new_with_options) and its queries (get,            *)
(* streaming_get_matching: the admission scan, then the drain of the       *)
(* returned iterator).                                                     *)
(*                                                                         *)
(* Numbers: f64 values are kept as integers.  A relev is held in           *)
(* thousandths (1.0 = 1000, 0.8 = 800, 1.0 * 0.96 = 960); a scoredist is   *)
(* held as the integer the formula below yields.  Bytes are 0..255.        *)
(***************************************************************************)
EXTENDS Integers, Sequences, FiniteSets, TLC

(***************************************************************************)
(* Bounds of the model.                                                    *)
(***************************************************************************)
\* builder.insert calls per store
MaxInserts == 2
\* phrase ids of inserted keys are 1..MaxPhrase
MaxPhrase == 2
\* finite max_values tried are 0..MaxK, next to usize::MAX
MaxK == 1

(***************************************************************************)
(* Program constants.                                                      *)
(***************************************************************************)
\* TypeMarker discriminants, the first byte of a key
SinglePhrase == 0
PrefixBin == 1
\* the max_values of an unbounded query (usize::MAX in mod.rs:579), held as the
\* greatest integer TLC represents; it is only ever compared with a queue length
UsizeMax == 2147483647
\* stands for u128::MAX, the lang_set keys() gives a key without language
\* bytes; greater than every lang_set of the model
U128Max == 2147483647
\* u32::MAX, the greatest phrase id.  TLC's integers end at 2^31 - 1: the u32
\* values of the model are 0 .. 2^31 - 2 and this one, which stands for
\* 4294967295; it is written as the bytes ff ff ff ff, it is greater than every
\* other u32 of the model, and it is the value whose successor overflows
U32Max == 2147483647
\* reader options of the tests: zoom 14 (mod.rs:200)
TestZoom == 14
\* the factor applied to relev when the language does not match, in thousandths
LangPenalty == 960
RelevUnit == 1000

(***************************************************************************)
(* Integer and sequence helpers.                                           *)
(***************************************************************************)
Max(a, b) == IF a >= b THEN a ELSE b

SetMax(S) == CHOOSE m \in S : \A o \in S : o <= m

RECURSIVE SortDesc(_)
\* the members of a finite set of integers, greatest first
SortDesc(S) == IF S = {} THEN <<>> ELSE LET m == SetMax(S) IN <<m>> \o SortDesc(S \ {m})

RECURSIVE SortAsc(_)
SortAsc(S) == IF S = {} THEN <<>> ELSE LET m == SetMax(S) IN Append(SortAsc(S \ {m}), m)

RECURSIVE Flatten(_)
\* flat_map: the concatenation of a sequence of sequences
Flatten(ss) == IF ss = <<>> THEN <<>> ELSE Head(ss) \o Flatten(Tail(ss))

Elems(s) == {s[i] : i \in 1..Len(s)}

RECURSIVE BitAnd(_, _)
\* bitwise AND of two naturals
BitAnd(a, b) ==
    IF a = 0 \/ b = 0 THEN 0
    ELSE (IF a % 2 = 1 /\ b % 2 = 1 THEN 1 ELSE 0) + 2 * BitAnd(a \div 2, b \div 2)

RECURSIVE BytesLess(_, _)
\* memcmp order of two byte strings, a proper prefix first (ORDER BY key on a BLOB)
BytesLess(a, b) ==
    IF b = <<>> THEN FALSE
    ELSE IF a = <<>> THEN TRUE
    ELSE IF Head(a) # Head(b) THEN Head(a) < Head(b)
    ELSE BytesLess(Tail(a), Tail(b))

\* write_u32::<BigEndian>
U32BE(n) ==
    IF n = U32Max THEN <<255, 255, 255, 255>>
    ELSE << (n \div 16777216) % 256, (n \div 65536) % 256, (n \div 256) % 256, n % 256 >>

\* read_u32::<BigEndian> of the first four bytes
ReadU32BE(b) ==
    IF b[1] = 255 /\ b[2] = 255 /\ b[3] = 255 /\ b[4] = 255 THEN U32Max
    ELSE b[1] * 16777216 + b[2] * 65536 + b[3] * 256 + b[4]

\* u32::to_le_bytes
U32LE(n) == << n % 256, (n \div 256) % 256, (n \div 65536) % 256, (n \div 16777216) % 256 >>

\* u32::from_le_bytes
FromLeBytes(b) == b[1] + b[2] * 256 + b[3] * 65536 + b[4] * 16777216

(***************************************************************************)
(* Morton codes (crate morton): x in the even bits, y in the odd bits.     *)
(***************************************************************************)
RECURSIVE interleave_morton(_, _)
interleave_morton(x, y) ==
    IF x = 0 /\ y = 0 THEN 0
    ELSE (x % 2) + 2 * (y % 2) + 4 * interleave_morton(x \div 2, y \div 2)

RECURSIVE EvenBits(_)
EvenBits(m) == IF m = 0 THEN 0 ELSE (m % 2) + 2 * EvenBits(m \div 4)

\* deinterleave_morton(coord) = (x, y)
deinterleave_morton(m) == << EvenBits(m), EvenBits(m \div 2) >>

(***************************************************************************)
(* The data the model draws its inputs from.                               *)
(***************************************************************************)
\* language sets of the inserted keys
LangSets == {1, 2}

\* the keys of matching_test (mod.rs:173): every phrase id under language set
\* 1, the first phrase id under every language set
GridKeys ==
    {k \in [phrase_id : 1..MaxPhrase, lang_set : LangSets] :
        k.phrase_id = 1 \/ k.lang_set = 1}

\* GridEntry values offered to builder.insert: two coords of one bucket whose
\* morton order (1,2) > (2,1) is the reverse of their (x, y) order, a lower
\* score in the same relev, a lower relev, a second id on one coord, and the
\* greatest id_comp TLC's integers hold (id 2^23 - 1, hash 255)
EntryPool ==
    { [relev |-> 1000, score |-> 7, x |-> 1, y |-> 2, id |-> 1, source_phrase_hash |-> 0],
      [relev |-> 1000, score |-> 7, x |-> 2, y |-> 1, id |-> 2, source_phrase_hash |-> 1],
      [relev |-> 1000, score |-> 1, x |-> 3, y |-> 3, id |-> 8388607, source_phrase_hash |-> 255],
      [relev |-> 800, score |-> 7, x |-> 2, y |-> 1, id |-> 2, source_phrase_hash |-> 0],
      [relev |-> 1000, score |-> 7, x |-> 1, y |-> 2, id |-> 4, source_phrase_hash |-> 0] }

\* the sets of bin boundaries offered to load_bin_boundaries
\* one bin over every phrase id, or one bin per phrase id
BoundaryChoices == { {1, MaxPhrase + 1}, 1..(MaxPhrase + 1) }

(***************************************************************************)
(* Key codec (common.rs): [type_marker][phrase_id: u32 BE][lang_set bytes].*)
(***************************************************************************)
RECURSIVE BEBytes(_)
\* the big-endian bytes of a natural without its leading zero bytes
BEBytes(n) == IF n = 0 THEN <<>> ELSE Append(BEBytes(n \div 256), n % 256)

\* GridKey::write_to
write_to(type_marker, key) == <<type_marker>> \o U32BE(key.phrase_id) \o BEBytes(key.lang_set)

\* the reserved key "~BOUNDS"
BoundsKey == <<126, 66, 79, 85, 78, 68, 83>>

(***************************************************************************)
(* Record codec, write side (builder.rs, gridstore_format).                *)
(* A record is a sequence of RelevScore buckets, each a relev_score byte   *)
(* and a sequence of Coord, each a morton code and a sequence of id_comp.  *)
(***************************************************************************)
\* q = round(relev * 5), relev in thousandths
relev_float_to_int(relev) == (relev * 5 + 500) \div 1000

\* relev = q / 5, in thousandths
relev_int_to_float(q) == q * 200

RelevScoreOf(e) == relev_float_to_int(e.relev) * 16 + e.score

IdCompOf(e) == e.id * 256 + e.source_phrase_hash

EncodeCoord(E, m) ==
    [coord |-> m,
     ids |-> SortDesc({IdCompOf(e) : e \in {f \in E : interleave_morton(f.x, f.y) = m}})]

EncodeBucket(E, rs) ==
    LET B == {e \in E : RelevScoreOf(e) = rs}
        ms == SortDesc({interleave_morton(e.x, e.y) : e \in B})
    IN  [relev_score |-> rs, coords |-> [i \in 1..Len(ms) |-> EncodeCoord(B, ms[i])]]

\* the PhraseRecord the builder writes for a set of entries: buckets by
\* descending relev_score, coords by descending morton code, ids merged
EncodeRecord(E) ==
    LET rss == SortDesc({RelevScoreOf(e) : e \in E})
    IN  [i \in 1..Len(rss) |-> EncodeBucket(E, rss[i])]

(***************************************************************************)
(* Builder, reader-facing surface (builder.rs): finish writes one          *)
(* SinglePhrase row per inserted key, one PrefixBin row per bin and        *)
(* language set holding the merged entries of the bin, and the ~BOUNDS row.*)
(***************************************************************************)
EntriesOf(data, key) == {d.entry : d \in {c \in data : c.key = key}}

KeysOf(data) == {d.key : d \in data}

\* the consecutive pairs of a set of boundaries
Bins(bounds) ==
    {<<a, b>> \in bounds \X bounds : a < b /\ ~\E c \in bounds : a < c /\ c < b}

BinEntries(data, bin, lang) ==
    {d.entry : d \in {c \in data : /\ c.key.lang_set = lang
                                   /\ bin[1] <= c.key.phrase_id
                                   /\ c.key.phrase_id < bin[2]}}

SinglePhraseRows(data) ==
    {[key |-> write_to(SinglePhrase, k), value |-> EncodeRecord(EntriesOf(data, k))] :
        k \in KeysOf(data)}

PrefixBinRows(data, bounds) ==
    {[key |-> write_to(PrefixBin, [phrase_id |-> bl[1][1], lang_set |-> bl[2]]),
      value |-> EncodeRecord(BinEntries(data, bl[1], bl[2]))] :
        bl \in {c \in Bins(bounds) \X {k.lang_set : k \in KeysOf(data)} :
                   BinEntries(data, c[1], c[2]) # {}}}

\* the bin table as a packed array of little-endian u32
EncodeBounds(bounds) ==
    LET bs == SortAsc(bounds) IN Flatten([i \in 1..Len(bs) |-> U32LE(bs[i])])

RECURSIVE SortRows(_)
\* the rows of a table in ascending key order
SortRows(R) ==
    IF R = {} THEN <<>>
    ELSE LET first == CHOOSE r \in R : \A o \in R : o = r \/ BytesLess(r.key, o.key)
         IN  <<first>> \o SortRows(R \ {first})

\* GridStoreBuilder::finish: the table blobs(key, value), ordered by key; the
\* ~BOUNDS row is written when bin boundaries were loaded (keys() of a store
\* built without boundaries lists the inserted keys alone, mod.rs:454)
finish(data, bounds) ==
    SortRows(SinglePhraseRows(data) \cup PrefixBinRows(data, bounds)
             \cup IF bounds = {} THEN {}
                  ELSE {[key |-> BoundsKey, value |-> EncodeBounds(bounds)]})

(***************************************************************************)
(* SQLite, as the reader uses it.                                          *)
(***************************************************************************)
\* SELECT key, value FROM blobs WHERE key = ?  (query_row): the rows found
QueryRow(table, db_key) == {table[i] : i \in {j \in 1..Len(table) : table[j].key = db_key}}

\* SELECT key, value FROM blobs WHERE key >= ? ORDER BY key: the index of the
\* first row of the scan, Len + 1 when there is none
ScanStart(table, db_key) ==
    LET skipped == {i \in 1..Len(table) : BytesLess(table[i].key, db_key)}
    IN  Cardinality(skipped) + 1

(***************************************************************************)
(* Record codec, read side: decode_value.                                  *)
(***************************************************************************)
\* a decoder that shifts id_comp by 7 bits instead of 8
IdOfShift7(id_comp) == id_comp \div 128

\* id = id_comp >> 8, source_phrase_hash = id_comp & 255
IdOf(id_comp) == id_comp \div 256

HashOf(id_comp) == id_comp % 256

decode_coord(relev, score, coords_obj) ==
    LET xy == deinterleave_morton(coords_obj.coord)
    IN  [i \in 1..Len(coords_obj.ids) |->
            [relev |-> relev, score |-> score, x |-> xy[1], y |-> xy[2],
             id |-> IdOf(coords_obj.ids[i]),
             source_phrase_hash |-> HashOf(coords_obj.ids[i])]]

decode_bucket(rs_obj) ==
    LET relev == relev_int_to_float(rs_obj.relev_score \div 16)
        score == rs_obj.relev_score % 16
    IN  Flatten([i \in 1..Len(rs_obj.coords) |-> decode_coord(relev, score, rs_obj.coords[i])])

\* decode_value: the GridEntry values of a record, in on-disk order
decode_value(value) == Flatten([i \in 1..Len(value) |-> decode_bucket(value[i])])

(***************************************************************************)
(* Spatial filters and scoring (spatial.rs).  An Option is a sequence of   *)
(* length 0 (None) or the value's tuple (Some).                            *)
(***************************************************************************)
Abs(n) == IF n < 0 THEN 0 - n ELSE n

RECURSIVE Pow2(_)
Pow2(n) == IF n = 0 THEN 1 ELSE 2 * Pow2(n - 1)

\* Chebyshev distance on the tile grid
tile_dist(px, py, x, y) == Max(Abs(px - x), Abs(py - y))

\* monotone in zoom and in the configured radius; 40 tiles at zoom 14 for 1000
proximity_radius(zoom, radius) == (radius * Pow2(zoom)) \div 409600

f_in(distance, r) == IF distance = 0 THEN 2250 ELSE 1800 \div distance

f_out(distance, r) == 1800 \div distance

scoredist(zoom, distance, score, radius) ==
    IF distance <= proximity_radius(zoom, radius)
    THEN score * f_in(distance, proximity_radius(zoom, radius))
    ELSE score * f_out(distance, proximity_radius(zoom, radius))

InBbox(coords_obj, bbox) ==
    LET xy == deinterleave_morton(coords_obj.coord)
    IN  bbox[1] <= xy[1] /\ xy[1] <= bbox[3] /\ bbox[2] <= xy[2] /\ xy[2] <= bbox[4]

\* the coords inside the box, in their stored order
bbox_filter(coords_vec, bbox) == SelectSeq(coords_vec, LAMBDA c : InBbox(c, bbox))

\* the tile distance of a stored coord to the proximity point
CoordDist(coords_obj, prox_pt) ==
    LET xy == deinterleave_morton(coords_obj.coord)
    IN  tile_dist(prox_pt[1], prox_pt[2], xy[1], xy[2])

RECURSIVE NearestFirst(_, _)
\* a sequence of coords by ascending distance to the point, the coords at one
\* distance in their stored order
NearestFirst(coords_vec, prox_pt) ==
    IF coords_vec = <<>> THEN <<>>
    ELSE LET i == CHOOSE k \in 1..Len(coords_vec) :
                      /\ \A j \in 1..Len(coords_vec) :
                            CoordDist(coords_vec[k], prox_pt) <= CoordDist(coords_vec[j], prox_pt)
                      /\ \A j \in 1..(k - 1) :
                            CoordDist(coords_vec[k], prox_pt) < CoordDist(coords_vec[j], prox_pt)
         IN  <<coords_vec[i]>>
             \o NearestFirst(SubSeq(coords_vec, 1, i - 1)
                                 \o SubSeq(coords_vec, i + 1, Len(coords_vec)), prox_pt)

\* every coord (none is filtered out), the nearest to the point first: of the
\* coords x = 41 and x = 42 of one bucket, stored in descending morton order,
\* the query at (26, 1) of matching_test gets x = 41 first (mod.rs:397)
proximity(coords_vec, prox_pt) == NearestFirst(coords_vec, prox_pt)

bbox_proximity_filter(coords_vec, bbox, prox_pt) ==
    proximity(bbox_filter(coords_vec, bbox), prox_pt)

(***************************************************************************)
(* itertools: group_by on consecutive keys, and kmerge_by on a binary heap *)
(* of the streams' heads.                                                  *)
(***************************************************************************)
RECURSIVE somewhat_eager_groupby(_)
\* consecutive buckets of one relev form one group
somewhat_eager_groupby(relevs) ==
    IF relevs = <<>> THEN <<>>
    ELSE LET rest == somewhat_eager_groupby(Tail(relevs))
             h == Head(relevs)
         IN  IF rest # <<>> /\ rest[1].relev = h.relev
             THEN <<[relev |-> h.relev, score_groups |-> <<h>> \o rest[1].score_groups]>>
                  \o Tail(rest)
             ELSE <<[relev |-> h.relev, score_groups |-> <<h>>]>> \o rest

\* a predicate that puts the smaller scoredist first
KMergePredAscending(a, b) == a.scoredist < b.scoredist

\* the predicate given to kmerge_by: the first argument goes first
kmerge_pred(a, b) == a.scoredist > b.scoredist

Swap(heap, i, j) == [heap EXCEPT ![i] = heap[j], ![j] = heap[i]]

RECURSIVE sift_down(_, _)
\* heap is a sequence of non-empty streams; position 1 is the root
sift_down(heap, pos) ==
    LET child == 2 * pos
    IN  IF child + 1 <= Len(heap)
        THEN LET c == IF kmerge_pred(heap[child + 1][1], heap[child][1])
                      THEN child + 1 ELSE child
             IN  IF ~kmerge_pred(heap[c][1], heap[pos][1]) THEN heap
                 ELSE sift_down(Swap(heap, pos, c), c)
        ELSE IF child = Len(heap) /\ kmerge_pred(heap[child][1], heap[pos][1])
        THEN Swap(heap, pos, child)
        ELSE heap

RECURSIVE HeapifyFrom(_, _)
HeapifyFrom(heap, i) == IF i = 0 THEN heap ELSE HeapifyFrom(sift_down(heap, i), i - 1)

heapify(heap) == HeapifyFrom(heap, Len(heap) \div 2)

\* the heap after KMergeBy::next has taken the root's head
KMergeAdvance(heap) ==
    LET n == Len(heap)
        moved == IF Len(heap[1]) > 1 THEN [heap EXCEPT ![1] = Tail(heap[1])]
                 ELSE SubSeq([heap EXCEPT ![1] = heap[n]], 1, n - 1)
    IN  IF moved = <<>> THEN moved ELSE sift_down(moved, 1)

RECURSIVE KMergeDrain(_)
KMergeDrain(heap) ==
    IF heap = <<>> THEN <<>> ELSE <<heap[1][1]>> \o KMergeDrain(KMergeAdvance(heap))

\* kmerge_by over a sequence of streams: the empty ones are dropped
kmerge_by(streams) == KMergeDrain(heapify(SelectSeq(streams, LAMBDA st : st # <<>>)))

(***************************************************************************)
(* Per-key decode pipeline: decode_matching_value.                         *)
(* MatchOpts is [zoom, proximity, bbox]; a MatchEntry is a GridEntry with  *)
(* matches_language, distance and scoredist.                               *)
(***************************************************************************)
\* a match whose bbox arm passes every coord through
FilterCoordsIgnoringBbox(coords_vec, match_opts) ==
    IF match_opts.bbox = <<>> \/ match_opts.proximity = <<>> THEN coords_vec
    ELSE bbox_proximity_filter(coords_vec, match_opts.bbox, match_opts.proximity)

\* a match whose bbox arm takes the filter's Some for None
FilterCoordsBboxNone(coords_vec, match_opts) ==
    IF match_opts.bbox = <<>> /\ match_opts.proximity = <<>> THEN coords_vec
    ELSE IF match_opts.proximity = <<>> THEN <<>>
    ELSE IF match_opts.bbox = <<>> THEN proximity(coords_vec, match_opts.proximity)
    ELSE bbox_proximity_filter(coords_vec, match_opts.bbox, match_opts.proximity)

\* the match on MatchOpts { bbox, proximity } that picks the spatial filter
FilterCoords(coords_vec, match_opts) ==
    IF match_opts.bbox = <<>> /\ match_opts.proximity = <<>> THEN coords_vec
    ELSE IF match_opts.proximity = <<>> THEN bbox_filter(coords_vec, match_opts.bbox)
    ELSE IF match_opts.bbox = <<>> THEN proximity(coords_vec, match_opts.proximity)
    ELSE bbox_proximity_filter(coords_vec, match_opts.bbox, match_opts.proximity)

\* a catch-all arm that counts every coord as within the radius
ScoreCoordAlwaysWithin(coords_obj, score, match_opts, coalesce_radius) ==
    LET xy == deinterleave_morton(coords_obj.coord)
        prox_pt == match_opts.proximity
        distance == IF prox_pt = <<>> THEN 0
                    ELSE tile_dist(prox_pt[1], prox_pt[2], xy[1], xy[2])
    IN  [distance |-> distance,
         within_radius |-> IF prox_pt = <<>> THEN TRUE
                           ELSE distance <= proximity_radius(match_opts.zoom, coalesce_radius),
         score |-> score,
         scoredist |-> IF prox_pt = <<>> THEN score
                       ELSE scoredist(match_opts.zoom, distance, score, coalesce_radius),
         x |-> xy[1], y |-> xy[2], coords_obj |-> coords_obj]

\* (distance, within_radius, score, scoredist, x, y, coords_obj) of one coord
ScoreCoord(coords_obj, score, match_opts, coalesce_radius) ==
    LET xy == deinterleave_morton(coords_obj.coord)
        prox_pt == match_opts.proximity
        distance == IF prox_pt = <<>> THEN 0
                    ELSE tile_dist(prox_pt[1], prox_pt[2], xy[1], xy[2])
    IN  [distance |-> distance,
         within_radius |-> IF prox_pt = <<>> THEN FALSE
                           ELSE distance <= proximity_radius(match_opts.zoom, coalesce_radius),
         score |-> score,
         scoredist |-> IF prox_pt = <<>> THEN score
                       ELSE scoredist(match_opts.zoom, distance, score, coalesce_radius),
         x |-> xy[1], y |-> xy[2], coords_obj |-> coords_obj]

\* a penalty that ignores within_radius
BoostedRelevNoRadius(relev, matches_language, within_radius) ==
    (relev * (IF matches_language THEN RelevUnit ELSE LangPenalty)) \div RelevUnit

\* relev * (if matches_language || within_radius { 1 } else { 0.96 })
BoostedRelev(relev, matches_language, within_radius) ==
    (relev * (IF matches_language \/ within_radius THEN RelevUnit ELSE LangPenalty))
        \div RelevUnit

\* the MatchEntry values of one merged coord, one per id
ExpandIds(relev, matches_language, c) ==
    [i \in 1..Len(c.coords_obj.ids) |->
        [relev |-> BoostedRelev(relev, matches_language, c.within_radius),
         score |-> c.score, x |-> c.x, y |-> c.y,
         id |-> IdOf(c.coords_obj.ids[i]),
         source_phrase_hash |-> HashOf(c.coords_obj.ids[i]),
         matches_language |-> matches_language,
         distance |-> c.distance,
         scoredist |-> c.scoredist]]

\* one relev group: its buckets' filtered coords merged by scoredist
DecodeGroup(g, match_opts, matches_language, coalesce_radius) ==
    LET coords_per_score ==
            [i \in 1..Len(g.score_groups) |->
                LET sg == g.score_groups[i]
                    coords == FilterCoords(sg.rs_obj.coords, match_opts)
                IN  [j \in 1..Len(coords) |->
                        ScoreCoord(coords[j], sg.score, match_opts, coalesce_radius)]]
        all_coords == kmerge_by(coords_per_score)
    IN  Flatten([i \in 1..Len(all_coords) |->
                    ExpandIds(g.relev, matches_language, all_coords[i])])

decode_matching_value(value, match_opts, matches_language, coalesce_radius) ==
    LET relevs == [i \in 1..Len(value) |->
                      [relev |-> relev_int_to_float(value[i].relev_score \div 16),
                       score |-> value[i].relev_score % 16,
                       rs_obj |-> value[i]]]
        groups == somewhat_eager_groupby(relevs)
    IN  Flatten([i \in 1..Len(groups) |->
                    DecodeGroup(groups[i], match_opts, matches_language, coalesce_radius)])

(***************************************************************************)
(* MatchKey (common.rs): match_phrase is [exact, start, end], Exact(id)    *)
(* being [exact |-> TRUE, start |-> id, end |-> id].                       *)
(***************************************************************************)
\* MatchKey::write_start_to: the lower bound of the scan
write_start_to(type_marker, fetch_start) == <<type_marker>> \o U32BE(fetch_start)

\* whether a scanned key parses: the marker byte and the 4-byte phrase id
KeyParses(db_key) == Len(db_key) >= 5

\* MatchKey::matches_key on the range [fetch_start, fetch_end)
matches_key(fetch_start, fetch_end, type_marker, db_key) ==
    /\ db_key[1] = type_marker
    /\ fetch_start <= ReadU32BE(SubSeq(db_key, 2, 5))
    /\ ReadU32BE(SubSeq(db_key, 2, 5)) < fetch_end

RECURSIVE ReadBE(_)
\* the big-endian value of a byte string (the key's language bytes, left-padded)
ReadBE(b) == IF b = <<>> THEN 0 ELSE ReadBE(SubSeq(b, 1, Len(b) - 1)) * 256 + b[Len(b)]

\* MatchKey::matches_language: an empty language segment matches everything
matches_language(lang_set, db_key) ==
    LET key_lang_partial == SubSeq(db_key, 6, Len(db_key))
    IN  IF key_lang_partial = <<>> THEN TRUE
        ELSE BitAnd(lang_set, ReadBE(key_lang_partial)) # 0

(***************************************************************************)
(* QueueElement: next_entry, entry_iter (the rest of the record's stream)  *)
(* and, for the record of the run only, the table row it was decoded from. *)
(***************************************************************************)
sort_key(next_entry) ==
    << next_entry.relev, next_entry.scoredist,
       IF next_entry.matches_language THEN 1 ELSE 0,
       next_entry.x, next_entry.y, next_entry.id >>

RECURSIVE TupleLess(_, _)
\* lexicographic order of two tuples of integers of one length
TupleLess(a, b) ==
    IF a = <<>> THEN FALSE
    ELSE IF Head(a) # Head(b) THEN Head(a) < Head(b)
    ELSE TupleLess(Tail(a), Tail(b))

\* Ord for QueueElement: a < b
ElemLess(a, b) == TupleLess(sort_key(a.next_entry), sort_key(b.next_entry))

\* the positions peek_min / peek_max_mut may return
MinPositions(pri_queue) ==
    {i \in 1..Len(pri_queue) : \A j \in 1..Len(pri_queue) : ~ElemLess(pri_queue[j], pri_queue[i])}

MaxPositions(pri_queue) ==
    {i \in 1..Len(pri_queue) : \A j \in 1..Len(pri_queue) : ~ElemLess(pri_queue[i], pri_queue[j])}

RemoveAt(seq, i) == SubSeq(seq, 1, i - 1) \o SubSeq(seq, i + 1, Len(seq))

(***************************************************************************)
(* GridStore::new_with_options.  disk is what the path holds: "db" (the    *)
(* directory and db.sqlite), "no_file" (the directory alone) or "no_dir".  *)
(***************************************************************************)
\* Connection::open: rusqlite opens read-write and creates a missing file
ConnectionOpen(disk) == IF disk = "no_dir" THEN "Err" ELSE "Ok"

\* a reader that takes the trailing chunk too, padded with zero bytes
ParseBoundsWithTail(encoded_boundaries) ==
    {FromLeBytes(SubSeq(encoded_boundaries \o <<0, 0, 0>>, 4 * k + 1, 4 * k + 4)) :
        k \in 0..(((Len(encoded_boundaries) + 3) \div 4) - 1)}

\* chunks(4), the chunks of 4 bytes read as little-endian u32
ParseBounds(encoded_boundaries) ==
    {FromLeBytes(SubSeq(encoded_boundaries, 4 * k + 1, 4 * k + 4)) :
        k \in 0..((Len(encoded_boundaries) \div 4) - 1)}

\* the outcome of the ~BOUNDS query_row: "row", "norows" or "failed"
BoundsRead(table, disk, read_fails) ==
    IF disk # "db" \/ read_fails THEN "failed"
    ELSE IF QueryRow(table, BoundsKey) = {} THEN "norows"
    ELSE "row"

new_with_options(table, disk, read_fails, opts) ==
    IF ConnectionOpen(disk) = "Err"
    THEN [result |-> "Err", disk |-> disk, bounds_read |-> "none", bin_boundaries |-> {},
          options |-> opts]
    ELSE LET db_bounds == BoundsRead(table, disk, read_fails)
         IN  [result |-> "Ok", disk |-> disk, bounds_read |-> db_bounds,
              bin_boundaries |->
                  IF db_bounds = "row"
                  THEN ParseBounds((CHOOSE r \in QueryRow(table, BoundsKey) : TRUE).value)
                  ELSE {},
              options |-> opts]

\* the options the model opens its readers with: zoom 14 and a coalesce
\* radius that makes the proximity radius one tile
ReaderOptions ==
    [path |-> "store", zoom |-> TestZoom, type_id |-> 0, coalesce_radius |-> 25,
     bboxes |-> << <<0, 0, 16383, 16383>> >>, max_score |-> 1]

NoReader ==
    [result |-> "none", disk |-> "db", bounds_read |-> "none", bin_boundaries |-> {},
     options |-> ReaderOptions]

(***************************************************************************)
(* GridStore::get.  lookup is the outcome of query_row: "row", "norows"    *)
(* (QueryReturnedNoRows) or "failed" (any other error).                    *)
(***************************************************************************)
GetLookup(table, key, read_fails) ==
    IF read_fails THEN "failed"
    ELSE IF QueryRow(table, write_to(SinglePhrase, key)) = {} THEN "norows"
    ELSE "row"

get(table, key, read_fails) ==
    LET result == GetLookup(table, key, read_fails)
    IN  IF result = "row"
        THEN [called |-> TRUE, key |-> key, lookup |-> result, result |-> "Some",
              entries |-> decode_value(
                  (CHOOSE r \in QueryRow(table, write_to(SinglePhrase, key)) : TRUE).value)]
        ELSE [called |-> TRUE, key |-> key, lookup |-> result, result |-> "None",
              entries |-> <<>>]

NoGet ==
    [called |-> FALSE, key |-> [phrase_id |-> 0, lang_set |-> 0], lookup |-> "none",
     result |-> "none", entries |-> <<>>]

(***************************************************************************)
(* GridStore::keys and GridStore::iter: every row of blobs in key order.   *)
(* A listing is [op, result, items], result "Ok" or "panicked".            *)
(***************************************************************************)
\* the GridKey read from the key of a row: phrase_id from key[1..5], lang_set
\* from key[5..], u128::MAX when no language byte follows
RowKey(db_key) ==
    [phrase_id |-> ReadU32BE(SubSeq(db_key, 2, 5)),
     lang_set |-> IF Len(db_key) = 5 THEN U128Max
                  ELSE ReadBE(SubSeq(db_key, 6, Len(db_key)))]

keys(table) ==
    IF \E i \in 1..Len(table) : Len(table[i].key) < 5
    THEN [op |-> "keys", result |-> "panicked", items |-> <<>>]
    ELSE [op |-> "keys", result |-> "Ok",
          items |-> [i \in 1..Len(table) |-> RowKey(table[i].key)]]

\* decode_value on the value of a row; the ~BOUNDS value is no PhraseRecord
\* and what the record reader makes of it is not defined: no entry, or a panic
RowEntries(kv) ==
    IF kv.key = BoundsKey THEN {<<"Ok", <<>> >>, <<"panicked", <<>> >>}
    ELSE {<<"Ok", decode_value(kv.value)>>}

RECURSIVE IterItems(_, _)
\* what iter may collect from row i on: [ok, items], ok FALSE after a panic
IterItems(table, i) ==
    IF i > Len(table) THEN {[ok |-> TRUE, items |-> <<>>]}
    ELSE UNION {IF d[1] = "panicked" THEN {[ok |-> FALSE, items |-> <<>>]}
                ELSE {IF ~rest.ok THEN rest
                      ELSE [ok |-> TRUE,
                            items |-> <<[key |-> RowKey(table[i].key), entries |-> d[2]]>>
                                          \o rest.items] :
                          rest \in IterItems(table, i + 1)} :
                   d \in RowEntries(table[i])}

iter(table) ==
    IF \E i \in 1..Len(table) : Len(table[i].key) < 5
    THEN {[op |-> "iter", result |-> "panicked", items |-> <<>>]}
    ELSE {[op |-> "iter", result |-> IF it.ok THEN "Ok" ELSE "panicked", items |-> it.items] :
             it \in IterItems(table, 1)}

NoListing == [op |-> "none", result |-> "none", items |-> <<>>]

(***************************************************************************)
(* GridStore::streaming_get_matching.  A query is its arguments and the    *)
(* fetch range; a run is the position of the call: pc "admit" (the scan    *)
(* loop), "drain" (the iterator is with the caller), "done" (next returned *)
(* None), "panicked" (an unwrap failed); cursor is the next table row;     *)
(* emitted and origin are what next has returned and the row of each;      *)
(* reads counts the key-value pairs fetched from the statement.            *)
(***************************************************************************)
\* id + 1 on u32 as a build without overflow checks computes it: u32::MAX + 1
\* wraps to 0
WrappingSucc(id) == IF id = U32Max THEN 0 ELSE id + 1

\* whether id + 1 overflows u32: a build with overflow checks panics there
SuccOverflows(id) == id = U32Max

\* a reader that takes the PrefixBin marker when start alone is a boundary
FetchRangeOnStartAlone(bin_boundaries, match_phrase) ==
    IF match_phrase.exact
    THEN <<match_phrase.start, WrappingSucc(match_phrase.start), SinglePhrase>>
    ELSE IF match_phrase.start \in bin_boundaries
    THEN <<match_phrase.start, match_phrase.end, PrefixBin>>
    ELSE <<match_phrase.start, match_phrase.end, SinglePhrase>>

\* (fetch_start, fetch_end, fetch_type_marker)
FetchRange(bin_boundaries, match_phrase) ==
    IF match_phrase.exact
    THEN <<match_phrase.start, WrappingSucc(match_phrase.start), SinglePhrase>>
    ELSE IF match_phrase.start \in bin_boundaries /\ match_phrase.end \in bin_boundaries
    THEN <<match_phrase.start, match_phrase.end, PrefixBin>>
    ELSE <<match_phrase.start, match_phrase.end, SinglePhrase>>

MakeQuery(bin_boundaries, match_key, match_opts, max_values) ==
    LET f == FetchRange(bin_boundaries, match_key.match_phrase)
    IN  [match_key |-> match_key, match_opts |-> match_opts, max_values |-> max_values,
         fetch_start |-> f[1], fetch_end |-> f[2], fetch_type_marker |-> f[3],
         fetch_overflow |-> match_key.match_phrase.exact
                            /\ SuccOverflows(match_key.match_phrase.start)]

\* the call up to the scan loop: the prepared statement and an empty queue
StartRun(table, query) ==
    [pc |-> "admit",
     cursor |-> ScanStart(table, write_start_to(query.fetch_type_marker, query.fetch_start)),
     pri_queue |-> <<>>, emitted |-> <<>>, origin |-> <<>>, reads |-> 0]

\* the states the call may be in when it reaches the loop: where id + 1
\* overflowed, the build with overflow checks has panicked and the build
\* without them goes on with the wrapped fetch_end
StartRuns(table, query) ==
    {StartRun(table, query)}
    \cup IF query.fetch_overflow THEN {[StartRun(table, query) EXCEPT !.pc = "panicked"]}
         ELSE {}

\* a full queue that takes the offered element without giving one up
OfferToFullPush(pri_queue, queue_element, i) == Append(pri_queue, queue_element)

\* a full queue that gives up its minimum to an element that only equals it
OfferToFullOnTie(pri_queue, queue_element, i) ==
    IF ElemLess(queue_element, pri_queue[i]) THEN pri_queue
    ELSE [pri_queue EXCEPT ![i] = queue_element]

\* the queue after a full queue has been offered queue_element, with the
\* minimum at position i
OfferToFull(pri_queue, queue_element, i) ==
    IF ~ElemLess(pri_queue[i], queue_element) THEN pri_queue
    ELSE [pri_queue EXCEPT ![i] = queue_element]

\* a scan that stops on the type marker alone
ScanBreaksOnMarker(query, db_key) == db_key[1] # query.fetch_type_marker

\* a scan whose range includes fetch_end
ScanBreaksAfterEnd(query, db_key) ==
    ~matches_key(query.fetch_start, query.fetch_end + 1, query.fetch_type_marker, db_key)

\* if !range_key.matches_key(fetch_type_marker, &kv.key) { break; }
ScanBreaks(query, db_key) ==
    ~matches_key(query.fetch_start, query.fetch_end, query.fetch_type_marker, db_key)

\* a language match that reads the language bytes from the last byte of the
\* phrase id on
ScanLanguageFromPhrase(query, db_key) ==
    BitAnd(query.match_key.lang_set, ReadBE(SubSeq(db_key, 5, Len(db_key)))) # 0

\* match_key.matches_language(&kv.key)
ScanLanguage(query, db_key) == matches_language(query.match_key.lang_set, db_key)

\* one iteration of the loop over db_iter: the runs it may lead to
AdmitSteps(table, coalesce_radius, query, run, row_fails) ==
    IF run.cursor > Len(table) THEN {[run EXCEPT !.pc = "drain"]}
    ELSE IF row_fails THEN {[run EXCEPT !.pc = "panicked"]}
    ELSE LET kv == table[run.cursor]
         IN  IF ~KeyParses(kv.key) THEN {[run EXCEPT !.pc = "panicked", !.reads = @ + 1]}
             ELSE IF ScanBreaks(query, kv.key)
                  THEN {[run EXCEPT !.pc = "drain", !.reads = @ + 1]}
             ELSE LET ml == ScanLanguage(query, kv.key)
                      entry_iter == decode_matching_value(kv.value, query.match_opts, ml,
                                                          coalesce_radius)
                      advanced == [run EXCEPT !.cursor = @ + 1, !.reads = @ + 1]
                  IN  IF entry_iter = <<>> THEN {advanced}
                      ELSE LET queue_element ==
                                   [next_entry |-> Head(entry_iter),
                                    entry_iter |-> Tail(entry_iter),
                                    row |-> run.cursor]
                           IN  IF Len(run.pri_queue) >= query.max_values
                               THEN IF run.pri_queue = <<>>
                                    THEN {[run EXCEPT !.pc = "panicked", !.reads = @ + 1]}
                                    ELSE {[advanced EXCEPT !.pri_queue =
                                               OfferToFull(@, queue_element, i)] :
                                             i \in MinPositions(run.pri_queue)}
                               ELSE {[advanced EXCEPT !.pri_queue =
                                          Append(@, queue_element)]}

\* a next that fetches a row from the statement before it takes the maximum
DrainStepsReading(run) ==
    IF run.pri_queue = <<>> THEN {[run EXCEPT !.pc = "done"]}
    ELSE {LET best_entry == run.pri_queue[i]
          IN  IF best_entry.entry_iter # <<>>
              THEN [run EXCEPT !.emitted = Append(@, best_entry.next_entry),
                               !.origin = Append(@, best_entry.row),
                               !.reads = @ + 1,
                               !.pri_queue[i] =
                                   [best_entry EXCEPT
                                       !.next_entry = Head(best_entry.entry_iter),
                                       !.entry_iter = Tail(best_entry.entry_iter)]]
              ELSE [run EXCEPT !.emitted = Append(@, best_entry.next_entry),
                               !.origin = Append(@, best_entry.row),
                               !.reads = @ + 1,
                               !.pri_queue = RemoveAt(@, i)] :
            i \in MaxPositions(run.pri_queue)}

\* a next that takes a minimum of the queue
DrainStepsFromMin(run) ==
    IF run.pri_queue = <<>> THEN {[run EXCEPT !.pc = "done"]}
    ELSE {LET best_entry == run.pri_queue[i]
          IN  IF best_entry.entry_iter # <<>>
              THEN [run EXCEPT !.emitted = Append(@, best_entry.next_entry),
                               !.origin = Append(@, best_entry.row),
                               !.pri_queue[i] =
                                   [best_entry EXCEPT
                                       !.next_entry = Head(best_entry.entry_iter),
                                       !.entry_iter = Tail(best_entry.entry_iter)]]
              ELSE [run EXCEPT !.emitted = Append(@, best_entry.next_entry),
                               !.origin = Append(@, best_entry.row),
                               !.pri_queue = RemoveAt(@, i)] :
            i \in MinPositions(run.pri_queue)}

\* a next that pops an exhausted element without returning its next_entry
DrainStepsLosingLast(run) ==
    IF run.pri_queue = <<>> THEN {[run EXCEPT !.pc = "done"]}
    ELSE {LET best_entry == run.pri_queue[i]
          IN  IF best_entry.entry_iter # <<>>
              THEN [run EXCEPT !.emitted = Append(@, best_entry.next_entry),
                               !.origin = Append(@, best_entry.row),
                               !.pri_queue[i] =
                                   [best_entry EXCEPT
                                       !.next_entry = Head(best_entry.entry_iter),
                                       !.entry_iter = Tail(best_entry.entry_iter)]]
              ELSE [run EXCEPT !.pri_queue = RemoveAt(@, i)] :
            i \in MaxPositions(run.pri_queue)}

\* one call of next on the returned iterator: the runs it may lead to
DrainSteps(run) ==
    IF run.pri_queue = <<>> THEN {[run EXCEPT !.pc = "done"]}
    ELSE {LET best_entry == run.pri_queue[i]
          IN  IF best_entry.entry_iter # <<>>
              THEN [run EXCEPT !.emitted = Append(@, best_entry.next_entry),
                               !.origin = Append(@, best_entry.row),
                               !.pri_queue[i] =
                                   [best_entry EXCEPT
                                       !.next_entry = Head(best_entry.entry_iter),
                                       !.entry_iter = Tail(best_entry.entry_iter)]]
              ELSE [run EXCEPT !.emitted = Append(@, best_entry.next_entry),
                               !.origin = Append(@, best_entry.row),
                               !.pri_queue = RemoveAt(@, i)] :
            i \in MaxPositions(run.pri_queue)}

RECURSIVE Runs(_, _, _, _)
\* the finished runs a run may lead to when every row is read
Runs(table, coalesce_radius, query, run) ==
    IF run.pc \in {"done", "panicked"} THEN {run}
    ELSE UNION {Runs(table, coalesce_radius, query, n) :
                   n \in IF run.pc = "admit"
                         THEN AdmitSteps(table, coalesce_radius, query, run, FALSE)
                         ELSE DrainSteps(run)}

\* the finished runs of a whole query on a reader over table
streaming_get_matching(table, bin_boundaries, coalesce_radius, match_key, match_opts, max_values) ==
    LET query == MakeQuery(bin_boundaries, match_key, match_opts, max_values)
    IN  UNION {Runs(table, coalesce_radius, query, r) : r \in StartRuns(table, query)}

NoQuery ==
    [match_key |-> [match_phrase |-> [exact |-> TRUE, start |-> 0, end |-> 0],
                    lang_set |-> 0],
     match_opts |-> [zoom |-> TestZoom, proximity |-> <<>>, bbox |-> <<>>],
     max_values |-> 0, fetch_start |-> 0, fetch_end |-> 0,
     fetch_type_marker |-> SinglePhrase, fetch_overflow |-> FALSE]

NoRun ==
    [pc |-> "idle", cursor |-> 0, pri_queue |-> <<>>, emitted |-> <<>>, origin |-> <<>>,
     reads |-> 0]

(***************************************************************************)
(* Inputs of the queries.                                                  *)
(***************************************************************************)
MatchPhrases ==
    {[exact |-> TRUE, start |-> p, end |-> p] : p \in 1..MaxPhrase}
    \cup {[exact |-> FALSE, start |-> se[1], end |-> se[2]] :
             se \in (1..(MaxPhrase + 1)) \X (1..(MaxPhrase + 1))}

\* language sets of the queries: the keys of lang_set 1 match, those of 2 do not
QueryLangs == {1}

MatchKeys == {[match_phrase |-> mp, lang_set |-> l] : mp \in MatchPhrases, l \in QueryLangs}

\* no filter, a proximity point on the coord (1,2), a bbox around (1,1)-(2,2)
MatchOptsSet ==
    {[zoom |-> TestZoom, proximity |-> p, bbox |-> b] :
        p \in {<<>>, <<1, 2>>}, b \in {<<>>, <<1, 1, 2, 2>>}}

\* MatchOpts::default() at the zoom of the reader
DefaultOpts == [zoom |-> TestZoom, proximity |-> <<>>, bbox |-> <<>>]

MaxValues == (0..MaxK) \cup {UsizeMax}

(***************************************************************************)
(* The state machine.                                                      *)
(*   phase   "building", "finished" (the store is closed), "open"          *)
(*   data    the (key, entry) pairs inserted into the builder              *)
(*   bounds  the bin boundaries loaded into the builder, {} when none      *)
(*   table   the rows of blobs(key, value) in key order                    *)
(*   reader  the GridStore returned by new_with_options                    *)
(*   query, run   the current streaming_get_matching call                  *)
(*   got     the result of the last get                                    *)
(*   listed  the result of the last keys or iter                           *)
(*   other   [query, run]: a second streaming_get_matching call on the     *)
(*           same reader, alive together with the first                    *)
(***************************************************************************)
VARIABLES phase, data, bounds, table, reader, query, run, got, listed, other

vars == <<phase, data, bounds, table, reader, query, run, got, listed, other>>

NoOther == [query |-> NoQuery, run |-> NoRun]

Init ==
    /\ phase = "building"
    /\ data = {}
    /\ bounds = {}
    /\ table = <<>>
    /\ reader = NoReader
    /\ query = NoQuery
    /\ run = NoRun
    /\ got = NoGet
    /\ listed = NoListing
    /\ other = NoOther

\* builder.insert(key, [entry])
Insert(key, entry) ==
    /\ phase = "building"
    /\ Cardinality(data) < MaxInserts
    /\ [key |-> key, entry |-> entry] \notin data
    /\ data' = data \cup {[key |-> key, entry |-> entry]}
    /\ UNCHANGED <<phase, bounds, table, reader, query, run, got, listed, other>>

\* builder.load_bin_boundaries(b)
LoadBinBoundaries(b) ==
    /\ phase = "building"
    /\ bounds = {}
    /\ bounds' = b
    /\ UNCHANGED <<phase, data, table, reader, query, run, got, listed, other>>

\* builder.finish()
Finish ==
    /\ phase = "building"
    /\ table' = finish(data, bounds)
    /\ phase' = "finished"
    /\ UNCHANGED <<data, bounds, reader, query, run, got, listed, other>>

\* GridStore::new_with_options on the finished store
Open ==
    /\ phase = "finished"
    /\ reader' = new_with_options(table, "db", FALSE, ReaderOptions)
    /\ phase' = "open"
    /\ UNCHANGED <<data, bounds, table, query, run, got, listed, other>>

\* reader.get(key)
Get(key) ==
    /\ phase = "open"
    /\ run.pc = "idle"
    /\ got' = get(table, key, FALSE)
    /\ UNCHANGED <<phase, data, bounds, table, reader, query, run, listed, other>>

\* reader.keys()
Keys ==
    /\ phase = "open"
    /\ run.pc = "idle"
    /\ listed' = keys(table)
    /\ UNCHANGED <<phase, data, bounds, table, reader, query, run, got, other>>

\* reader.iter()
Iter ==
    /\ phase = "open"
    /\ run.pc = "idle"
    /\ listed' \in iter(table)
    /\ UNCHANGED <<phase, data, bounds, table, reader, query, run, got, other>>

\* a call that records the start of every range it serves in bin_boundaries
StartQueryCachingBounds(match_key, match_opts, max_values) ==
    /\ phase = "open"
    /\ run.pc = "idle"
    /\ query' = MakeQuery(reader.bin_boundaries, match_key, match_opts, max_values)
    /\ run' \in StartRuns(table, query')
    /\ got' = NoGet
    /\ listed' = NoListing
    /\ reader' = [reader EXCEPT !.bin_boundaries = @ \cup {match_key.match_phrase.start}]
    /\ UNCHANGED <<phase, data, bounds, table, other>>

\* reader.streaming_get_matching(match_key, match_opts, max_values), up to the loop
StartQuery(match_key, match_opts, max_values) ==
    /\ phase = "open"
    /\ run.pc = "idle"
    /\ query' = MakeQuery(reader.bin_boundaries, match_key, match_opts, max_values)
    /\ run' \in StartRuns(table, query')
    /\ got' = NoGet
    /\ listed' = NoListing
    /\ UNCHANGED <<phase, data, bounds, table, reader, other>>

\* one iteration of the admission loop
Admit ==
    /\ run.pc = "admit"
    /\ run' \in AdmitSteps(table, reader.options.coalesce_radius, query, run, FALSE)
    /\ UNCHANGED <<phase, data, bounds, table, reader, query, got, listed, other>>

\* one call of next on the returned iterator
NextEntry ==
    /\ run.pc = "drain"
    /\ run' \in DrainSteps(run)
    /\ UNCHANGED <<phase, data, bounds, table, reader, query, got, listed, other>>

\* the caller drops the iterator (or the panic has unwound)
Drop ==
    /\ run.pc \in {"drain", "done", "panicked"}
    /\ run' = NoRun
    /\ query' = NoQuery
    /\ UNCHANGED <<phase, data, bounds, table, reader, got, listed, other>>

Next ==
    \/ \E key \in GridKeys, entry \in EntryPool : Insert(key, entry)
    \/ \E b \in BoundaryChoices : LoadBinBoundaries(b)
    \/ Finish
    \/ Open
    \/ \E key \in GridKeys : Get(key)
    \/ Keys
    \/ Iter
    \/ \E match_key \in MatchKeys, match_opts \in MatchOptsSet, max_values \in MaxValues :
           StartQuery(match_key, match_opts, max_values)
    \/ Admit
    \/ NextEntry
    \/ Drop

Spec == Init /\ [][Next]_vars

(***************************************************************************)
(* The same machine in an environment that fails: a row of the store with  *)
(* a key too short to parse, a path without a store, reads that fail.      *)
(***************************************************************************)
\* a key of the SinglePhrase marker and one more byte, after every phrase id
ShortKey == <<SinglePhrase, 255>>

\* the closed store gets a row whose key does not parse
CorruptKey ==
    /\ phase = "finished"
    /\ table = finish(data, bounds)
    /\ \A i \in 1..Len(table) : table[i].key # ShortKey
    /\ table' = SortRows(Elems(table) \cup {[key |-> ShortKey, value |-> <<>>]})
    /\ UNCHANGED <<phase, data, bounds, reader, query, run, got, listed, other>>

\* the first bucket of the first SinglePhrase record of the closed store gets
\* a relev_score byte whose relev nibble is q = 6 (6 * 16 + score)
CorruptRecord ==
    /\ phase = "finished"
    /\ table = finish(data, bounds)
    /\ \E i \in 1..Len(table) :
          /\ table[i].key[1] = SinglePhrase
          /\ \A j \in 1..(i - 1) : table[j].key[1] # SinglePhrase
          /\ table' = [table EXCEPT ![i].value[1].relev_score = 96 + (@ % 16)]
    /\ UNCHANGED <<phase, data, bounds, reader, query, run, got, listed, other>>

\* new_with_options on a path without a store, or when the ~BOUNDS read fails
OpenFault(disk, read_fails) ==
    /\ phase = "finished"
    /\ disk # "db" \/ read_fails
    /\ reader' = new_with_options(table, disk, read_fails, ReaderOptions)
    /\ phase' = IF disk = "db" THEN "open" ELSE "no_store"
    /\ UNCHANGED <<data, bounds, table, query, run, got, listed, other>>

\* reader.get(key) when the lookup fails
GetFault(key) ==
    /\ phase = "open"
    /\ run.pc = "idle"
    /\ got' = get(table, key, TRUE)
    /\ UNCHANGED <<phase, data, bounds, table, reader, query, run, listed, other>>

\* an iteration of the admission loop whose row cannot be read
AdmitFault ==
    /\ run.pc = "admit"
    /\ run.cursor <= Len(table)
    /\ run' \in AdmitSteps(table, reader.options.coalesce_radius, query, run, TRUE)
    /\ UNCHANGED <<phase, data, bounds, table, reader, query, got, listed, other>>

\* the builder, open, get and the queries with the default MatchOpts, and the
\* faults
FaultNext ==
    \/ \E key \in GridKeys, entry \in EntryPool : Insert(key, entry)
    \/ \E b \in BoundaryChoices : LoadBinBoundaries(b)
    \/ Finish
    \/ Open
    \/ \E key \in GridKeys : Get(key)
    \/ \E match_key \in MatchKeys, max_values \in MaxValues :
           StartQuery(match_key, DefaultOpts, max_values)
    \/ Admit
    \/ NextEntry
    \/ Drop
    \/ CorruptKey
    \/ CorruptRecord
    \/ \E disk \in {"db", "no_file", "no_dir"}, read_fails \in BOOLEAN :
           OpenFault(disk, read_fails)
    \/ \E key \in GridKeys : GetFault(key)
    \/ AdmitFault

FaultSpec == Init /\ [][FaultNext]_vars

(***************************************************************************)
(* Two iterators of one reader.  The stores are two entries under the keys *)
(* of language set 1, opened without bin boundaries; the calls and the     *)
(* next() calls of the two iterators interleave freely.                    *)
(***************************************************************************)
PairKeys == {k \in GridKeys : k.lang_set = 1}

PairStores ==
    {D \in SUBSET {[key |-> k, entry |-> e] : k \in PairKeys, e \in EntryPool} :
        Cardinality(D) = MaxInserts}

PairMatchKeys ==
    {[match_phrase |-> mp, lang_set |-> 1] :
        mp \in {[exact |-> TRUE, start |-> 1, end |-> 1],
                [exact |-> FALSE, start |-> 1, end |-> MaxPhrase + 1]}}

PairInit ==
    /\ phase = "open"
    /\ data \in PairStores
    /\ bounds = {}
    /\ table = finish(data, bounds)
    /\ reader = new_with_options(table, "db", FALSE, ReaderOptions)
    /\ query = NoQuery
    /\ run = NoRun
    /\ got = NoGet
    /\ listed = NoListing
    /\ other = NoOther

\* the second call of streaming_get_matching, up to the loop
OtherStart(match_key, match_opts, max_values) ==
    /\ phase = "open"
    /\ other.run.pc = "idle"
    /\ \E r \in StartRuns(table, MakeQuery(reader.bin_boundaries, match_key, match_opts,
                                            max_values)) :
           other' = [query |-> MakeQuery(reader.bin_boundaries, match_key, match_opts,
                                         max_values),
                     run |-> r]
    /\ UNCHANGED <<phase, data, bounds, table, reader, query, run, got, listed>>

\* one iteration of the admission loop of the second call
OtherAdmit ==
    /\ other.run.pc = "admit"
    /\ \E r \in AdmitSteps(table, reader.options.coalesce_radius, other.query, other.run,
                           FALSE) :
           other' = [other EXCEPT !.run = r]
    /\ UNCHANGED <<phase, data, bounds, table, reader, query, run, got, listed>>

\* a next() that takes from the queue of the first iterator
OtherNextShared ==
    /\ other.run.pc = "drain"
    /\ \E r \in DrainSteps([other.run EXCEPT !.pri_queue = run.pri_queue]) :
           other' = [other EXCEPT !.run = r]
    /\ UNCHANGED <<phase, data, bounds, table, reader, query, run, got, listed>>

\* one call of next on the second iterator: its closure owns its queue
OtherNext ==
    /\ other.run.pc = "drain"
    /\ \E r \in DrainSteps(other.run) : other' = [other EXCEPT !.run = r]
    /\ UNCHANGED <<phase, data, bounds, table, reader, query, run, got, listed>>

PairNext ==
    \/ \E match_key \in PairMatchKeys, max_values \in {MaxK, UsizeMax} :
           StartQuery(match_key, DefaultOpts, max_values)
    \/ Admit
    \/ NextEntry
    \/ \E match_key \in PairMatchKeys, max_values \in {MaxK, UsizeMax} :
           OtherStart(match_key, DefaultOpts, max_values)
    \/ OtherAdmit
    \/ OtherNext

PairSpec == PairInit /\ [][PairNext]_vars

(***************************************************************************)
(* Queries over a wider range of languages and boxes, on an open reader    *)
(* over a store of one or two entries: keys without language bytes         *)
(* (lang_set 0) and with two language bytes, a query lang_set of 0, a bbox *)
(* that covers every tile of the zoom.                                     *)
(***************************************************************************)
\* global_bbox_for_zoom
GlobalBbox(zoom) == <<0, 0, Pow2(zoom) - 1, Pow2(zoom) - 1>>

WideKeys ==
    {[phrase_id |-> 1, lang_set |-> 0], [phrase_id |-> 1, lang_set |-> 1],
     [phrase_id |-> 1, lang_set |-> 2], [phrase_id |-> MaxPhrase, lang_set |-> 257]}

\* entries at (1,2) and at (3,3)
WideEntries == {e \in EntryPool : e.id = 1 \/ e.source_phrase_hash = 255}

WideStores ==
    {D \in SUBSET {[key |-> k, entry |-> e] : k \in WideKeys, e \in WideEntries} :
        D # {} /\ Cardinality(D) <= MaxInserts}

WideMatchKeys ==
    {[match_phrase |-> mp, lang_set |-> l] :
        mp \in {[exact |-> TRUE, start |-> 1, end |-> 1],
                [exact |-> FALSE, start |-> 1, end |-> MaxPhrase + 1],
                [exact |-> FALSE, start |-> MaxPhrase, end |-> MaxPhrase + 1]},
        l \in {0, 1, 2}}

WideOpts ==
    {[zoom |-> TestZoom, proximity |-> p, bbox |-> b] :
        p \in {<<>>, <<1, 2>>}, b \in {<<>>, <<1, 1, 2, 2>>, GlobalBbox(TestZoom)}}

WideInit ==
    /\ phase = "open"
    /\ data \in WideStores
    /\ bounds \in {{}, {1, MaxPhrase + 1}}
    /\ table = finish(data, bounds)
    /\ reader = new_with_options(table, "db", FALSE, ReaderOptions)
    /\ query = NoQuery
    /\ run = NoRun
    /\ got = NoGet
    /\ listed = NoListing
    /\ other = NoOther

WideNext ==
    \/ \E match_key \in WideMatchKeys, match_opts \in WideOpts, max_values \in MaxValues :
           StartQuery(match_key, match_opts, max_values)
    \/ Admit
    \/ NextEntry
    \/ Drop

WideSpec == WideInit /\ [][WideNext]_vars

(***************************************************************************)
(* Listings and lookups on the same stores: keys(), iter() and get of the  *)
(* stored keys and of the key iter() reads from a row without language     *)
(* bytes.                                                                  *)
(***************************************************************************)
ListedKeys == WideKeys \cup {[phrase_id |-> 1, lang_set |-> U128Max]}

ListNext ==
    \/ Keys
    \/ Iter
    \/ \E key \in ListedKeys : Get(key)

ListSpec == WideInit /\ [][ListNext]_vars

(***************************************************************************)
(* Queries at the top of the phrase id range, on an open reader over a     *)
(* store of one or two entries under the phrase ids 1, u32::MAX - 1 and    *)
(* u32::MAX.                                                               *)
(***************************************************************************)
TopKeys == {[phrase_id |-> p, lang_set |-> l] : p \in {1, U32Max - 1, U32Max}, l \in LangSets}

TopStores ==
    {D \in SUBSET {[key |-> k, entry |-> e] : k \in TopKeys, e \in WideEntries} :
        D # {} /\ Cardinality(D) <= MaxInserts}

TopMatchKeys ==
    {[match_phrase |-> mp, lang_set |-> 1] :
        mp \in {[exact |-> TRUE, start |-> id, end |-> id] : id \in {1, U32Max - 1, U32Max}}
               \cup {[exact |-> FALSE, start |-> U32Max - 1, end |-> U32Max]}}

TopInit ==
    /\ phase = "open"
    /\ data \in TopStores
    /\ bounds = {}
    /\ table = finish(data, bounds)
    /\ reader = new_with_options(table, "db", FALSE, ReaderOptions)
    /\ query = NoQuery
    /\ run = NoRun
    /\ got = NoGet
    /\ listed = NoListing
    /\ other = NoOther

TopNext ==
    \/ \E match_key \in TopMatchKeys, max_values \in MaxValues :
           StartQuery(match_key, DefaultOpts, max_values)
    \/ Admit
    \/ NextEntry
    \/ Drop

TopSpec == TopInit /\ [][TopNext]_vars

(***************************************************************************)
(* Queries around several proximity points and at two zooms, on a reader   *)
(* opened with a coalesce radius of 0 (GridStore::new) or of ReaderOptions *)
(* over a store of up to three entries under one phrase id and two         *)
(* language sets.                                                          *)
(***************************************************************************)
ProxKeys == {k \in GridKeys : k.phrase_id = 1}

ProxStores ==
    {D \in SUBSET {[key |-> k, entry |-> e] : k \in ProxKeys, e \in EntryPool} :
        D # {} /\ Cardinality(D) <= MaxInserts + 1}

ProxMatchKeys ==
    {[match_phrase |-> mp, lang_set |-> 1] :
        mp \in {[exact |-> TRUE, start |-> 1, end |-> 1],
                [exact |-> FALSE, start |-> 1, end |-> MaxPhrase + 1]}}

\* the zoom of GridStore::new (6) or of the tests; no point, or a point on one
\* of the coords (1,2), (2,1), (3,3); no box, or the box around (1,1)-(2,2)
ProxOpts ==
    {[zoom |-> z, proximity |-> p, bbox |-> b] :
        z \in {6, TestZoom}, p \in {<<>>, <<1, 2>>, <<2, 1>>, <<3, 3>>},
        b \in {<<>>, <<1, 1, 2, 2>>}}

ProxInit ==
    /\ phase = "open"
    /\ data \in ProxStores
    /\ bounds = {}
    /\ table = finish(data, bounds)
    /\ \E radius \in {0, ReaderOptions.coalesce_radius} :
          reader = new_with_options(table, "db", FALSE,
                                    [ReaderOptions EXCEPT !.coalesce_radius = radius])
    /\ query = NoQuery
    /\ run = NoRun
    /\ got = NoGet
    /\ listed = NoListing
    /\ other = NoOther

ProxNext ==
    \/ \E match_key \in ProxMatchKeys, match_opts \in ProxOpts, max_values \in MaxValues :
           StartQuery(match_key, match_opts, max_values)
    \/ Admit
    \/ NextEntry
    \/ Drop

ProxSpec == ProxInit /\ [][ProxNext]_vars

\* the same queries with a caller that goes on calling next while the
\* iterator yields
DrainSpec == ProxInit /\ [][ProxNext]_vars /\ WF_vars(NextEntry)

(***************************************************************************)
(* Readers over stores whose ~BOUNDS value was not written by the builder: *)
(* up to two chunks of four bytes, repeated or not, and a trailing chunk   *)
(* of zero to three bytes; or no ~BOUNDS row at all.                       *)
(***************************************************************************)
BoundsChunks == {U32LE(b) : b \in 1..(MaxPhrase + 1)}

BoundsBlobs ==
    {Flatten(chunks) \o tail :
        chunks \in {<<>>} \cup {<<c>> : c \in BoundsChunks}
                         \cup {<<c, d>> : c \in BoundsChunks, d \in BoundsChunks},
        tail \in {<<>>, <<1>>, <<1, 0>>, <<1, 0, 0>>}}

\* one entry under some keys of language set 1
BoundsStores ==
    {D \in SUBSET {[key |-> k, entry |-> e] : k \in PairKeys, e \in WideEntries} :
        D # {} /\ Cardinality(D) <= MaxInserts /\ \A c, d \in D : c.key = d.key => c = d}

BoundsInit ==
    /\ phase = "finished"
    /\ data \in BoundsStores
    /\ bounds = {}
    /\ \/ table = finish(data, bounds)
       \/ \E blob \in BoundsBlobs :
             table = SortRows(Elems(finish(data, bounds))
                              \cup {[key |-> BoundsKey, value |-> blob]})
    /\ reader = NoReader
    /\ query = NoQuery
    /\ run = NoRun
    /\ got = NoGet
    /\ listed = NoListing
    /\ other = NoOther

BoundsNext ==
    \/ Open
    \/ \E match_key \in MatchKeys, max_values \in {MaxK, UsizeMax} :
           StartQuery(match_key, DefaultOpts, max_values)
    \/ Admit
    \/ NextEntry
    \/ Drop

BoundsSpec == BoundsInit /\ [][BoundsNext]_vars

(***************************************************************************)
(* Queries over three records with a queue of one or two elements: a       *)
(* store with entries under every key, scanned by a Range over every       *)
(* phrase id.                                                              *)
(***************************************************************************)
QueueStores ==
    {D \in SUBSET {[key |-> k, entry |-> e] : k \in GridKeys, e \in EntryPool} :
        KeysOf(D) = GridKeys /\ Cardinality(D) <= MaxInserts + 2}

QueueMatchKeys ==
    {[match_phrase |-> [exact |-> FALSE, start |-> 1, end |-> MaxPhrase + 1], lang_set |-> 1]}

\* no filter, the box around (1,1)-(2,2), a proximity point on the coord (2,1)
QueueOpts ==
    {DefaultOpts, [DefaultOpts EXCEPT !.bbox = <<1, 1, 2, 2>>],
     [DefaultOpts EXCEPT !.proximity = <<2, 1>>]}

QueueInit ==
    /\ phase = "open"
    /\ data \in QueueStores
    /\ bounds = {}
    /\ table = finish(data, bounds)
    /\ reader = new_with_options(table, "db", FALSE, ReaderOptions)
    /\ query = NoQuery
    /\ run = NoRun
    /\ got = NoGet
    /\ listed = NoListing
    /\ other = NoOther

QueueNext ==
    \/ \E match_key \in QueueMatchKeys, match_opts \in QueueOpts,
          max_values \in 1..(MaxK + 1) :
           StartQuery(match_key, match_opts, max_values)
    \/ Admit
    \/ NextEntry
    \/ Drop

QueueSpec == QueueInit /\ [][QueueNext]_vars

(***************************************************************************)
(* Properties.                                                             *)
(***************************************************************************)
\* the composite rank of a is strictly below that of b
RankLess(a, b) == TupleLess(sort_key(a), sort_key(b))

\* C1: the entries one streaming_get_matching iterator emits (max_values >= 1)
\* are non-increasing under the composite rank (relev, scoredist,
\* matches_language, x, y, id): no entry ranks above an entry emitted before it
C1_EmittedNonIncreasing ==
    query.max_values >= 1 =>
        \A i, j \in 1..Len(run.emitted) :
            i < j => ~RankLess(run.emitted[i], run.emitted[j])

Min(a, b) == IF a <= b THEN a ELSE b

\* the composite ranks of a sequence of entries
Ranks(entries) == [i \in 1..Len(entries) |-> sort_key(entries[i])]

RECURSIVE SortTuplesDesc(_)
\* a sequence of tuples in descending lexicographic order
SortTuplesDesc(ts) ==
    IF ts = <<>> THEN <<>>
    ELSE LET i == CHOOSE k \in 1..Len(ts) : \A j \in 1..Len(ts) : ~TupleLess(ts[k], ts[j])
         IN  <<ts[i]>> \o SortTuplesDesc(RemoveAt(ts, i))

Count(seq, e) == Cardinality({i \in 1..Len(seq) : seq[i] = e})

\* two sequences hold the same values the same number of times
SameBag(s, t) ==
    /\ Len(s) = Len(t)
    /\ \A e \in Elems(s) \cup Elems(t) : Count(s, e) = Count(t, e)

\* the entries the current query yields on the same reader with max_values unbounded
UnboundedResult ==
    (CHOOSE r \in streaming_get_matching(table, reader.bin_boundaries,
                                         reader.options.coalesce_radius, query.match_key,
                                         query.match_opts, UsizeMax) : TRUE).emitted

\* C2: once the iterator is drained, the first K = max_values >= 1 entries it
\* emitted carry exactly the K highest composite ranks of the result the same
\* query yields with max_values unbounded
C2_FirstKAreTopK ==
    (run.pc = "done" /\ query.max_values >= 1) =>
        LET full == SortTuplesDesc(Ranks(UnboundedResult))
            firstK == SubSeq(run.emitted, 1, Min(query.max_values, Len(run.emitted)))
        IN  SortTuplesDesc(Ranks(firstK)) = SubSeq(full, 1, Min(query.max_values, Len(full)))

\* the current query is a Range whose start and end are both bin boundaries of
\* the reader, so that it is fetched from the PrefixBin records
BinAligned ==
    /\ ~query.match_key.match_phrase.exact
    /\ query.match_key.match_phrase.start \in reader.bin_boundaries
    /\ query.match_key.match_phrase.end \in reader.bin_boundaries

\* the finished runs of the current query on a reader over the same inserted
\* data, built without bin boundaries
RunsWithoutBins ==
    streaming_get_matching(finish(data, {}), {}, reader.options.coalesce_radius,
                           query.match_key, query.match_opts, query.max_values)

\* C3: for a bin-aligned Range, the sequence emitted by the reader with the bin
\* table loaded is a sequence the reader without a bin table emits for the same
\* query, for every max_values
C3_BinsSameSequence ==
    (run.pc = "done" /\ BinAligned) =>
        run.emitted \in {r.emitted : r \in RunsWithoutBins}

\* the entries of every SinglePhrase record with phrase_id in [start, end), as
\* the current query decodes them
SinglePhraseEntries ==
    LET rows == SelectSeq(table, LAMBDA kv :
                    /\ KeyParses(kv.key)
                    /\ matches_key(query.match_key.match_phrase.start,
                                   query.match_key.match_phrase.end, SinglePhrase, kv.key))
    IN  Flatten([i \in 1..Len(rows) |->
            decode_matching_value(rows[i].value, query.match_opts,
                                  matches_language(query.match_key.lang_set, rows[i].key),
                                  reader.options.coalesce_radius)])

\* C4: for a bin-aligned Range and max_values = usize::MAX, the reader with bins
\* and the reader without bins return the same multiset of entries, which is the
\* entries of all SinglePhrase records with phrase_id in [start, end)
C4_BinsSameMultiset ==
    (run.pc = "done" /\ BinAligned /\ query.max_values = UsizeMax) =>
        /\ \A r \in RunsWithoutBins : SameBag(run.emitted, r.emitted)
        /\ SameBag(run.emitted, SinglePhraseEntries)

\* whether the coord (x, y) lies within the proximity radius of the current query
WithinRadius(x, y) ==
    /\ query.match_opts.proximity # <<>>
    /\ tile_dist(query.match_opts.proximity[1], query.match_opts.proximity[2], x, y)
           <= proximity_radius(query.match_opts.zoom, reader.options.coalesce_radius)

\* the emitted entry e is the stored entry g with the language penalty applied
PenalisedFrom(e, g, ml) ==
    /\ e.x = g.x /\ e.y = g.y /\ e.id = g.id /\ e.score = g.score
    /\ e.source_phrase_hash = g.source_phrase_hash
    /\ e.relev = IF ml \/ WithinRadius(g.x, g.y) THEN g.relev
                 ELSE (g.relev * 96) \div 100

\* C5: every emitted entry carries the match value computed for the key of its
\* record, and its relev is the stored relev when the key matches the query
\* language or the coord is within the proximity radius, the stored relev times
\* 0.96 otherwise
C5_LanguagePenalty ==
    \A i \in 1..Len(run.emitted) :
        LET e == run.emitted[i]
            kv == table[run.origin[i]]
            ml == matches_language(query.match_key.lang_set, kv.key)
        IN  /\ e.matches_language = ml
            /\ \E g \in Elems(decode_value(kv.value)) : PenalisedFrom(e, g, ml)

\* a drained query that emitted, from a record of another language, one entry
\* within the radius at full relev and one outside it at 0.96 of its relev
C5_Witness ==
    /\ run.pc = "done"
    /\ \E i, j \in 1..Len(run.emitted) :
          /\ ~run.emitted[i].matches_language
          /\ WithinRadius(run.emitted[i].x, run.emitted[i].y)
          /\ run.emitted[i].relev = 1000
          /\ ~run.emitted[j].matches_language
          /\ ~WithinRadius(run.emitted[j].x, run.emitted[j].y)
          /\ run.emitted[j].relev = 960

\* C6: get returns None only when no SinglePhrase record is stored under the
\* key; a lookup that fails does not come back as None
C6_NoneOnlyWhenAbsent ==
    (got.called /\ got.result = "None") =>
        (got.lookup = "norows" /\ EntriesOf(data, got.key) = {})

\* (relev, score, morton, id) of a GridEntry
RecordOrderKey(e) == <<e.relev, e.score, interleave_morton(e.x, e.y), e.id>>

\* C7: get(key) returns Some exactly for an inserted key, and then returns the
\* entries inserted under the key, each once and with every field unchanged, in
\* descending order of (relev, score, morton(x, y), id)
C7_GetRoundTrip ==
    got.called =>
        LET E == EntriesOf(data, got.key)
        IN  /\ (got.result = "Some") <=> (E # {})
            /\ got.result = "Some" =>
                  /\ Len(got.entries) = Cardinality(E)
                  /\ Elems(got.entries) = E
                  /\ \A i, j \in 1..Len(got.entries) :
                        i < j => TupleLess(RecordOrderKey(got.entries[j]),
                                           RecordOrderKey(got.entries[i]))

\* a get that returned two entries, one with the greatest id and hash
C7_Witness ==
    /\ got.result = "Some"
    /\ Len(got.entries) >= 2
    /\ \E i \in 1..Len(got.entries) :
          got.entries[i].source_phrase_hash = 255 /\ got.entries[i].id = 8388607

\* the current query is a Range with start >= end
EmptyRange ==
    ~query.match_key.match_phrase.exact
        /\ query.match_key.match_phrase.start >= query.match_key.match_phrase.end

\* no inserted key has its phrase id in the range of the current query
NoKeyInRange ==
    \A d \in data :
        ~(query.fetch_start <= d.key.phrase_id /\ d.key.phrase_id < query.fetch_end)

\* C8: a query over an empty range, or over a range holding no stored key,
\* does not panic, admits no record and yields no entry
C8_EmptyRangeYieldsNothing ==
    (run.pc # "idle" /\ (EmptyRange \/ NoKeyInRange)) =>
        /\ run.pc # "panicked"
        /\ run.pri_queue = <<>>
        /\ run.emitted = <<>>

\* a drained query over an empty range on a store that holds a key at or after
\* the start of the range
C8_Witness ==
    /\ run.pc = "done"
    /\ EmptyRange
    /\ \E d \in data : d.key.phrase_id >= query.match_key.match_phrase.start

\* C9: with max_values >= 1, a row that cannot be read or a key that cannot be
\* parsed during the admission scan never makes the query panic
C9_ScanFailureNeverPanics ==
    query.max_values >= 1 => run.pc # "panicked"

\* C10: open succeeds only on a path that holds a store, and only when the
\* read of the bin table did not fail
C10_OpenFailsWithoutStore ==
    reader.result = "Ok" => (reader.disk = "db" /\ reader.bounds_read # "failed")

\* C11: once the reader is open, no step of get, keys, iter or
\* streaming_get_matching and its iterator changes the reader (bin_boundaries,
\* path, zoom, type_id, coalesce_radius, bboxes, max_score) or a row of the store
C11_ReaderOpsChangeNothing ==
    [][phase = "open" => (reader' = reader /\ table' = table)]_vars

\* a reader with a bin table whose query was drained and emitted entries
C11_Witness ==
    /\ phase = "open"
    /\ reader.bin_boundaries # {}
    /\ run.pc = "done"
    /\ run.emitted # <<>>

\* s is a prefix of t
IsPrefix(s, t) == Len(s) <= Len(t) /\ SubSeq(t, 1, Len(s)) = s

\* what the iterator of call c has emitted is what an iterator of the same
\* query, created and drained alone, emits: a prefix of it, the whole when done
AsAlone(c) ==
    c.run.pc \in {"drain", "done"} =>
        \E r \in streaming_get_matching(table, reader.bin_boundaries,
                                        reader.options.coalesce_radius, c.query.match_key,
                                        c.query.match_opts, c.query.max_values) :
            /\ IsPrefix(c.run.emitted, r.emitted)
            /\ c.run.pc = "done" => c.run.emitted = r.emitted

\* C12: of two iterators of one reader, under every interleaving of their
\* creation and their next() calls, each yields the sequence it yields alone
C12_IteratorsIndependent ==
    AsAlone([query |-> query, run |-> run]) /\ AsAlone(other)

\* both iterators drained, of different queries, each having emitted
C12_Witness ==
    /\ run.pc = "done" /\ other.run.pc = "done"
    /\ run.emitted # <<>> /\ other.run.emitted # <<>>
    /\ Len(run.emitted) # Len(other.run.emitted)

RECURSIVE SortKeys(_)
\* a set of GridKeys in ascending (phrase_id, lang_set) order
SortKeys(K) ==
    IF K = {} THEN <<>>
    ELSE LET first == CHOOSE k \in K : \A o \in K :
                          o = k \/ TupleLess(<<k.phrase_id, k.lang_set>>,
                                             <<o.phrase_id, o.lang_set>>)
         IN  <<first>> \o SortKeys(K \ {first})

\* C13: keys() yields exactly the distinct inserted GridKeys, each once, in
\* ascending (phrase_id, lang_set) order, and no key for a PrefixBin record or
\* for the ~BOUNDS blob, with or without bin boundaries loaded
C13_KeysListsInsertedKeys ==
    listed.op = "keys" =>
        (listed.result = "Ok" /\ listed.items = SortKeys(KeysOf(data)))

\* the entries of a sequence that lie in the box, bounds inclusive, in order
InBoxOnly(entries, bbox) ==
    SelectSeq(entries, LAMBDA e : /\ bbox[1] <= e.x /\ e.x <= bbox[3]
                                  /\ bbox[2] <= e.y /\ e.y <= bbox[4])

\* the finished runs of the current query with bbox = None
RunsWithoutBbox ==
    streaming_get_matching(table, reader.bin_boundaries, reader.options.coalesce_radius,
                           query.match_key, [query.match_opts EXCEPT !.bbox = <<>>],
                           query.max_values)

C15_GlobalBboxIsNoBbox ==
    (run.pc = "done" /\ query.match_opts.bbox = GlobalBbox(query.match_opts.zoom)) =>
        run.emitted \in {r.emitted : r \in RunsWithoutBbox}

\* a drained query with the global bbox and a proximity point that emitted
\* entries from more than one record
C15_Witness ==
    /\ run.pc = "done"
    /\ query.match_opts.bbox = GlobalBbox(query.match_opts.zoom)
    /\ query.match_opts.proximity # <<>>
    /\ Cardinality(Elems(run.origin)) >= 2

\* the lang_set the key of a row carries, 0 when it has no language byte
KeyLang(db_key) == ReadBE(SubSeq(db_key, 6, Len(db_key)))

\* C17 as claimed: matches_language is true exactly when the AND of the key's
\* and the query's lang_set is non-zero, or the key has no language bytes, or
\* the query's lang_set is 0
C17_EitherSideEmptyMatches ==
    \A i \in 1..Len(run.emitted) :
        LET db_key == table[run.origin[i]].key
        IN  run.emitted[i].matches_language
                <=> \/ BitAnd(query.match_key.lang_set, KeyLang(db_key)) # 0
                    \/ Len(db_key) = 5
                    \/ query.match_key.lang_set = 0

\* C17 amended: matches_language is true exactly when the AND of the key's and
\* the query's lang_set is non-zero or the key has no language bytes; a query
\* lang_set of 0 matches the keys without language bytes only
C17_KeySideEmptyMatches ==
    \A i \in 1..Len(run.emitted) :
        LET db_key == table[run.origin[i]].key
        IN  run.emitted[i].matches_language
                <=> \/ BitAnd(query.match_key.lang_set, KeyLang(db_key)) # 0
                    \/ Len(db_key) = 5

\* a query of lang_set 0 that emitted an entry of a key without language bytes
\* as matching and an entry of a key with language bytes as not matching
C17_Witness ==
    /\ query.match_key.lang_set = 0
    /\ \E i, j \in 1..Len(run.emitted) :
          /\ Len(table[run.origin[i]].key) = 5 /\ run.emitted[i].matches_language
          /\ Len(table[run.origin[j]].key) > 5 /\ ~run.emitted[j].matches_language

\* the key of a row carries the marker of the current query and a phrase id
\* in [fetch_start, fetch_end)
InFetchRange(db_key) ==
    /\ Len(db_key) >= 5
    /\ db_key[1] = query.fetch_type_marker
    /\ query.fetch_start <= ReadU32BE(SubSeq(db_key, 2, 5))
    /\ ReadU32BE(SubSeq(db_key, 2, 5)) < query.fetch_end

RowsInRange == {i \in 1..Len(table) : InFetchRange(table[i].key)}

\* the entries of a sequence that came from table row i, in order
FromRow(entries, origin, i) ==
    LET idx == SelectSeq([k \in 1..Len(entries) |-> k], LAMBDA k : origin[k] = i)
    IN  [k \in 1..Len(idx) |-> entries[idx[k]]]

DecodedRows ==
    ScanStart(table, write_start_to(query.fetch_type_marker, query.fetch_start))
        .. (run.cursor - 1)

\* what the records of the fetch range yield under the current query
RangeEntries ==
    LET rows == SortAsc(RowsInRange)
    IN  Flatten([k \in 1..Len(rows) |->
            decode_matching_value(table[rows[k]].value, query.match_opts,
                                  matches_language(query.match_key.lang_set,
                                                   table[rows[k]].key),
                                  reader.options.coalesce_radius)])

\* C16: the admission scan decodes a record exactly when its key carries the
\* marker of the query and a phrase id in [fetch_start, fetch_end), whatever
\* its lang_set; it reads at most one key beyond them; and when max_values is
\* at least the number of these records every entry of their filtered streams
\* is emitted exactly once
C16_ScanDecodesRange ==
    run.pc \in {"drain", "done"} =>
        /\ DecodedRows = RowsInRange
        /\ run.reads <= Cardinality(RowsInRange) + 1
        /\ (run.pc = "done" /\ query.max_values >= Cardinality(RowsInRange)) =>
              SameBag(run.emitted, RangeEntries)

\* a drained query over two records of one phrase id and different language
\* sets, with a row of the store after them, that emitted their entries
C16_Witness ==
    /\ run.pc = "done"
    /\ Cardinality(RowsInRange) >= 2
    /\ \E i, j \in RowsInRange :
          KeyLang(table[i].key) # KeyLang(table[j].key)
    /\ run.cursor <= Len(table)
    /\ Cardinality(Elems(run.origin)) >= 2

\* C18: in every state of a query the queue holds at most max_values
\* elements, and the emitted entries come from at most max_values records
C18_QueueBounded ==
    run.pc # "idle" =>
        /\ Len(run.pri_queue) <= query.max_values
        /\ Cardinality(Elems(run.origin)) <= query.max_values

\* the scan is over with the queue full and more records in the range than
\* max_values >= 1
C18_Witness ==
    /\ run.pc = "drain"
    /\ query.max_values >= 1
    /\ Len(run.pri_queue) = query.max_values
    /\ Cardinality(RowsInRange) > query.max_values

\* C19: a step of the admission loop reads at most one key-value pair, and no
\* next() on the returned iterator reads any
C19_ReadsInAdmissionOnly ==
    [][/\ (run.pc = "admit" /\ run'.pc # "idle") =>
              (run'.reads = run.reads \/ run'.reads = run.reads + 1)
       /\ (run.pc = "drain" /\ run'.pc # "idle") => run'.reads = run.reads]_vars

\* a drained iterator that emitted two entries after two reads
C19_Witness ==
    /\ run.pc = "done"
    /\ run.reads >= 2
    /\ Len(run.emitted) >= 2

\* no bucket of a record has a relev nibble above 5
BlobValid(value) == \A i \in 1..Len(value) : value[i].relev_score \div 16 <= 5

\* C20: no entry decoded from a record with a relev nibble q > 5 is returned
\* by get or emitted by streaming_get_matching
C20_CorruptBlobNeverDecoded ==
    /\ \A i \in 1..Len(run.emitted) : BlobValid(table[run.origin[i]].value)
    /\ got.result = "Some" =>
          \A r \in QueryRow(table, write_to(SinglePhrase, got.key)) : BlobValid(r.value)

\* the SinglePhrase rows whose phrase id is the id of the current Exact query
ExactRows ==
    {i \in 1..Len(table) :
        /\ KeyParses(table[i].key)
        /\ table[i].key[1] = SinglePhrase
        /\ ReadU32BE(SubSeq(table[i].key, 2, 5)) = query.match_key.match_phrase.start}

\* what the records of ExactRows yield under the current query
ExactEntries ==
    LET rows == SortAsc(ExactRows)
    IN  Flatten([k \in 1..Len(rows) |->
            decode_matching_value(table[rows[k]].value, query.match_opts,
                                  matches_language(query.match_key.lang_set,
                                                   table[rows[k]].key),
                                  reader.options.coalesce_radius)])

\* C21: an Exact(id) query, for every u32 id, is fetched with the SinglePhrase
\* marker over [id, id + 1), the upper bound being computed without overflow
\* and without wrapping to 0, and (max_values admitting every record) emits
\* the entries of the SinglePhrase records whose phrase id is id
C21_ExactFetchesIdToSucc ==
    (query.match_key.match_phrase.exact /\ run.pc # "idle"
        /\ query.max_values >= Cardinality(ExactRows)) =>
        /\ run.pc # "panicked"
        /\ query.fetch_type_marker = SinglePhrase
        /\ query.fetch_start = query.match_key.match_phrase.start
        /\ query.fetch_start < query.fetch_end
        /\ run.pc = "done" => SameBag(run.emitted, ExactEntries)

\* the phrase id in the key of table row i
RowPhrase(i) == ReadU32BE(SubSeq(table[i].key, 2, 5))

\* the phrase id of row i lies in [start, end) of the current query
InPhraseRange(i) ==
    /\ query.match_key.match_phrase.start <= RowPhrase(i)
    /\ RowPhrase(i) < query.match_key.match_phrase.end

\* C22 as claimed: a Range whose start and end are both in the bin table
\* decodes PrefixBin records only and fetches a single record, the one stored
\* under phrase_id = start; another Range decodes only SinglePhrase records
\* with phrase_id in [start, end); an Exact query decodes no PrefixBin record
C22_BinRangeFetchesOneRecord ==
    run.pc \in {"drain", "done"} =>
        /\ BinAligned =>
              /\ Cardinality(DecodedRows) <= 1
              /\ \A i \in DecodedRows :
                    /\ table[i].key[1] = PrefixBin
                    /\ RowPhrase(i) = query.match_key.match_phrase.start
        /\ (~query.match_key.match_phrase.exact /\ ~BinAligned) =>
              \A i \in DecodedRows : table[i].key[1] = SinglePhrase /\ InPhraseRange(i)
        /\ query.match_key.match_phrase.exact =>
              \A i \in DecodedRows : table[i].key[1] # PrefixBin

\* C22 amended: a Range whose start and end are both in the bin table
\* decodes PrefixBin records only, namely every PrefixBin record stored under
\* a phrase_id in [start, end); another Range decodes only SinglePhrase
\* records with phrase_id in [start, end); an Exact query decodes no PrefixBin
\* record
C22_BinRangeFetchesBinRecords ==
    run.pc \in {"drain", "done"} =>
        /\ BinAligned =>
              /\ \A i \in DecodedRows : table[i].key[1] = PrefixBin /\ InPhraseRange(i)
              /\ \A i \in 1..Len(table) :
                    (table[i].key[1] = PrefixBin /\ InPhraseRange(i)) => i \in DecodedRows
        /\ (~query.match_key.match_phrase.exact /\ ~BinAligned) =>
              \A i \in DecodedRows : table[i].key[1] = SinglePhrase /\ InPhraseRange(i)
        /\ query.match_key.match_phrase.exact =>
              \A i \in DecodedRows : table[i].key[1] # PrefixBin

\* a drained bin-aligned Range over two bins that decoded the PrefixBin record
\* of each and emitted from both
C22_Witness ==
    /\ run.pc = "done"
    /\ BinAligned
    /\ \E i, j \in DecodedRows : RowPhrase(i) # RowPhrase(j)
    /\ Cardinality(Elems(run.origin)) >= 2

\* the relev of the bucket a MatchEntry came from: its relev, or its relev
\* before the factor 0.96 (no stored relev q / 5 is 0.96 of another)
StoredRelev(e) == IF e.relev % 200 = 0 THEN e.relev ELSE (e.relev * 100) \div 96

\* the place of a MatchEntry in the stored order of its record
StoredPos(value, e) ==
    CHOOSE k \in 1..Len(decode_value(value)) :
        LET g == decode_value(value)[k]
        IN  /\ g.relev = StoredRelev(e) /\ g.score = e.score
            /\ g.x = e.x /\ g.y = e.y /\ g.id = e.id

\* two MatchEntry values of one stored coord
SameCoord(a, b) ==
    /\ StoredRelev(a) = StoredRelev(b) /\ a.score = b.score /\ a.x = b.x /\ a.y = b.y

\* the stream decode_matching_value yields for table row i under the query
RowStream(i) ==
    decode_matching_value(table[i].value, query.match_opts, ScanLanguage(query, table[i].key),
                          reader.options.coalesce_radius)

\* groups in descending relev; in a group non-increasing scoredist, equal
\* scoredist in stored order; the ids of a coord together
OrderedStream(value, stream) ==
    \A i, j \in 1..Len(stream) :
        i < j =>
            /\ StoredRelev(stream[i]) >= StoredRelev(stream[j])
            /\ StoredRelev(stream[i]) = StoredRelev(stream[j]) =>
                  /\ stream[i].scoredist >= stream[j].scoredist
                  /\ stream[i].scoredist = stream[j].scoredist =>
                        StoredPos(value, stream[i]) < StoredPos(value, stream[j])
            /\ SameCoord(stream[i], stream[j]) =>
                  \A k \in i..j : SameCoord(stream[i], stream[k])

C24_NoProximityScoring ==
    query.match_opts.proximity = <<>> =>
        \A i \in 1..Len(run.emitted) :
            LET e == run.emitted[i]
                kv == table[run.origin[i]]
            IN  /\ e.distance = 0
                /\ e.scoredist = e.score
                /\ \E g \in Elems(decode_value(kv.value)) :
                      /\ g.x = e.x /\ g.y = e.y /\ g.id = e.id /\ g.score = e.score
                      /\ e.relev = IF matches_language(query.match_key.lang_set, kv.key)
                                   THEN g.relev
                                   ELSE (g.relev * LangPenalty) \div RelevUnit

\* a drained query without proximity, with a bbox, at zoom 6 on a reader of
\* coalesce radius 0, that emitted an entry of a matching key and an entry of
\* a key of another language
C24_Witness ==
    /\ run.pc = "done"
    /\ query.match_opts.proximity = <<>>
    /\ query.match_opts.bbox # <<>>
    /\ query.match_opts.zoom # TestZoom
    /\ reader.options.coalesce_radius = 0
    /\ \E i, j \in 1..Len(run.emitted) :
          run.emitted[i].matches_language /\ ~run.emitted[j].matches_language

\* the ~BOUNDS rows of the table
BoundsRows == {i \in 1..Len(table) : table[i].key = BoundsKey}

RECURSIVE CompleteChunks(_)
\* the values of the consecutive complete 4-byte chunks of a blob, each read
\* with its first byte as the least significant
CompleteChunks(blob) ==
    IF Len(blob) < 4 THEN {}
    ELSE {blob[1] + 256 * (blob[2] + 256 * (blob[3] + 256 * blob[4]))}
         \cup CompleteChunks(SubSeq(blob, 5, Len(blob)))

\* C25: the bin_boundaries of an open reader are exactly the values of the
\* complete little-endian 4-byte chunks of the ~BOUNDS blob, a trailing chunk
\* of 1 to 3 bytes and repeated values adding nothing; without a ~BOUNDS row
\* the set is empty and every Range query takes the SinglePhrase marker
C25_BinBoundariesFromBlob ==
    phase = "open" =>
        /\ \A i \in BoundsRows : reader.bin_boundaries = CompleteChunks(table[i].value)
        /\ BoundsRows = {} =>
              /\ reader.bin_boundaries = {}
              /\ (run.pc # "idle" /\ ~query.match_key.match_phrase.exact) =>
                    query.fetch_type_marker = SinglePhrase

\* a reader opened on a ~BOUNDS blob of two equal chunks and a trailing byte,
\* with one boundary, and a Range query on it
C25_Witness ==
    /\ phase = "open"
    /\ \E i \in BoundsRows : Len(table[i].value) > 8 /\ Len(table[i].value) % 4 # 0
    /\ Cardinality(reader.bin_boundaries) = 1
    /\ run.pc = "done"
    /\ ~query.match_key.match_phrase.exact

\* the entries a queue still holds: of each element the next_entry and the
\* rest of its stream
Remaining(pri_queue) ==
    Flatten([k \in 1..Len(pri_queue) |->
                <<pri_queue[k].next_entry>> \o pri_queue[k].entry_iter])

\* a step of next() on an iterator that has not yet returned None
NextCall == run.pc = "drain" /\ run'.pc \in {"drain", "done"}

\* the element of the queue that the last emitted entry was taken from
Emitter(now, after) ==
    CHOOSE k \in 1..Len(now.pri_queue) :
        now.pri_queue[k].row = after.origin[Len(after.origin)]

\* C26: each next() emits exactly one entry or returns None, and None only on
\* an empty queue; what is emitted and what the queue still holds stay,
\* together, the entries the queue held when admission ended, so that each is
\* emitted exactly once; the queue loses an element exactly when the tail of
\* the emitting record is exhausted; after None every next() returns None and
\* changes nothing; and an iterator that is called on reaches None
C26_DrainEmitsEachOnce ==
    /\ [][NextCall =>
             /\ \/ /\ run'.pc = "drain"
                   /\ Len(run'.emitted) = Len(run.emitted) + 1
                   /\ SubSeq(run'.emitted, 1, Len(run.emitted)) = run.emitted
                \/ /\ run'.pc = "done"
                   /\ run.pri_queue = <<>>
                   /\ run'.emitted = run.emitted
             /\ SameBag(run'.emitted \o Remaining(run'.pri_queue),
                        run.emitted \o Remaining(run.pri_queue))
             /\ run'.pc = "drain" =>
                   (Len(run'.pri_queue) = Len(run.pri_queue) - 1
                       <=> run.pri_queue[Emitter(run, run')].entry_iter = <<>>)
             /\ Len(run'.pri_queue) \in {Len(run.pri_queue), Len(run.pri_queue) - 1}]_vars
    /\ [](run.pc = "done" => (run.pri_queue = <<>> /\ DrainSteps(run) = {run}))
    /\ (run.pc = "drain" ~> run.pc # "drain")

\* a drained iterator over two records, one of them of two entries, that
\* emitted every entry
C26_Witness ==
    /\ run.pc = "done"
    /\ Len(run.emitted) >= 3
    /\ Cardinality(Elems(run.origin)) >= 2

\* the table rows of the records in a queue
QueueRows(pri_queue) == {pri_queue[k].row : k \in 1..Len(pri_queue)}

\* an iteration of the admission loop that decoded a row while the queue
\* held max_values >= 1 elements
FullAdmit ==
    /\ run.pc = "admit" /\ run'.pc = "admit"
    /\ run'.cursor = run.cursor + 1
    /\ query.max_values >= 1
    /\ Len(run.pri_queue) = query.max_values

\* entry e ranks at or below the next_entry of every element of the queue
AtOrBelowAll(e, pri_queue) ==
    \A k \in 1..Len(pri_queue) : ~RankLess(pri_queue[k].next_entry, e)

\* C27: when a record is offered to a queue holding max_values >= 1 elements,
\* a head at or below the minimum leaves the queue as it is; a better head
\* takes the place of exactly one minimum element, whose tail goes with it,
\* and the size stays max_values; a record with an empty filtered stream is
\* never in the queue; and only records in the queue are emitted from, a
\* record once skipped or evicted never coming back
C27_FullQueueAdmission ==
    /\ [][FullAdmit =>
             LET stream == RowStream(run.cursor)
             IN  IF stream = <<>> \/ AtOrBelowAll(Head(stream), run.pri_queue)
                 THEN run'.pri_queue = run.pri_queue
                 ELSE \E i \in 1..Len(run.pri_queue) :
                         /\ AtOrBelowAll(run.pri_queue[i].next_entry, run.pri_queue)
                         /\ SameBag(run'.pri_queue,
                                    RemoveAt(run.pri_queue, i)
                                        \o <<[next_entry |-> Head(stream),
                                              entry_iter |-> Tail(stream),
                                              row |-> run.cursor]>>)]_vars
    /\ [][(run.pc \in {"admit", "drain"} /\ run'.pc # "idle") =>
             /\ QueueRows(run'.pri_queue)
                    \subseteq QueueRows(run.pri_queue)
                              \cup (IF run.pc = "admit" THEN {run.cursor} ELSE {})
             /\ Elems(run'.origin) \subseteq Elems(run.origin) \cup QueueRows(run.pri_queue)
             /\ run.pc = "admit" => run'.emitted = run.emitted]_vars
    /\ [](\A k \in 1..Len(run.pri_queue) : RowStream(run.pri_queue[k].row) # <<>>)

\* a drained query with max_values 2 over three records with entries under
\* the query, whose last record took a place in the full queue and whose
\* first or second record was never emitted from
C27_Witness ==
    /\ run.pc = "done"
    /\ query.max_values = 2
    /\ Cardinality({i \in RowsInRange : RowStream(i) # <<>>}) = 3
    /\ Len(table) \in Elems(run.origin)
    /\ Cardinality(Elems(run.origin)) = 2

\* C28: at every drain step the entry emitted is the next_entry of a maximum
\* element of the queue: no element of the queue at that moment has a
\* next_entry of greater rank (relev, scoredist, matches_language, x, y, id)
C28_DrainEmitsMaximum ==
    [][(run.pc = "drain" /\ run'.pc = "drain") =>
          LET e == run'.emitted[Len(run'.emitted)]
          IN  /\ \E k \in 1..Len(run.pri_queue) :
                    /\ run.pri_queue[k].next_entry = e
                    /\ run.pri_queue[k].row = run'.origin[Len(run'.origin)]
              /\ \A k \in 1..Len(run.pri_queue) :
                    ~RankLess(e, run.pri_queue[k].next_entry)]_vars

\* a drained query that emitted from two records, and within one record an
\* entry of greater rank after one of smaller rank
C28_Witness ==
    /\ run.pc = "done"
    /\ Cardinality(Elems(run.origin)) >= 2
    /\ \E i, j \in 1..Len(run.emitted) :
          /\ i < j
          /\ run.origin[i] = run.origin[j]
          /\ RankLess(run.emitted[i], run.emitted[j])

\* C29: a call with max_values = 0 does not fail and its iterator yields no
\* entry, also when records in the range have entries under the query
C29_ZeroMaxValuesYieldsNothing ==
    (query.max_values = 0 /\ run.pc # "idle") =>
        (run.pc # "panicked" /\ run.emitted = <<>>)

\* C30: every (key, entries) that iter() yields has the GridKey of an inserted
\* record, and get of that key returns Some with the same entries, also for
\* rows without language bytes and in stores with PrefixBin records and the
\* ~BOUNDS blob
C30_IterRoundTrip ==
    (listed.op = "iter" /\ listed.result = "Ok") =>
        \A n \in 1..Len(listed.items) :
            /\ listed.items[n].key \in KeysOf(data)
            /\ get(table, listed.items[n].key, FALSE).result = "Some"
            /\ get(table, listed.items[n].key, FALSE).entries = listed.items[n].entries
====
